---- MODULE Spec2Model ----
(***************************************************************************)
(* Streaming chart / sliding-window engine of the equipment detail view    *)
(* (frontend/src/pages/EquipmentDetailPage.tsx).                           *)
(*                                                                         *)
(* State: the React state of the page (sensorData, chartData,              *)
(* availableFeatures), the route parameter equipmentId, the historical     *)
(* requests in flight, and whether the [sensorData] effect is still to     *)
(* run.  JavaScript values are records tagged with their typeof kind, so   *)
(* that a number, a string, null and NaN stay distinguishable.             *)
(***************************************************************************)
EXTENDS Integers, Sequences, FiniteSets, TLC

\* ---------------------------------------------------------------- bounds
MaxLen == 3      \* SpecChart: longest event buffer drawn in Init
MaxBuf == 2      \* Spec: live messages stop once the buffer holds this many events
MaxBatch == 2    \* Spec: most sensors carried by one graph_update message
MaxSeed == 2     \* Spec: most historical messages returned by one request
MaxLoads == 2    \* Spec: most historical requests in flight at once
MaxSockets == 2  \* most sockets that have not reached CLOSED
MaxStr == 4      \* SpecCoerce: most characters of a string handed to formatValue
MaxMembers == 2  \* SpecCoerce: most members of an object handed to formatValue

VARIABLES
  equipmentId,        \* useParams().equipmentId, the viewed equipment
  sensorData,         \* the event buffer (useState, line 439)
  chartData,          \* the published chart table (useState, line 440)
  timeAxis,           \* windowTs of the last recomputation (line 671)
  availableFeatures,  \* the feature registry (useState, line 448)
  pendingLoads,       \* historical requests in flight, per requested equipment
  effectPending,      \* sensorData changed and the [sensorData] effect has not run yet
  engine,             \* the JavaScript engine the page runs on (fixed for a run)
  lastUpdate,         \* time of the last live update shown (useState, line 442)
  selectedFeatures,   \* the selection set (useState, line 447)
  sockets,            \* the WebSockets the page has opened and that are not CLOSED yet
  isConnected,        \* the connection indicator (useState, line 441)
  mounted,            \* the page is mounted
  probe,              \* SpecCoerce: the value handed to formatValue
  formatted,          \* SpecCoerce: what formatValue returned, once it has
  delivered,          \* history: the last live message handled and where its events begin
  staleLen,           \* history: leading events of the buffer put there under an earlier equipmentId
  buffered            \* history: sensor types put into the buffer since equipmentId last changed

vars == <<equipmentId, sensorData, chartData, timeAxis, availableFeatures,
          pendingLoads, effectPending, engine, lastUpdate, selectedFeatures,
          sockets, isConnected, mounted, probe, formatted, delivered,
          staleLen, buffered>>

\* ------------------------------------------------------- JavaScript values
\* a finite number: its integer part n and the digits of its fraction, without
\* trailing zeros (12.5 is n = 12, frac = <<5>>)
Dec(n, frac) == [kind |-> "number", n |-> n, frac |-> frac]
Num(n) == Dec(n, <<>>)
NaN == [kind |-> "NaN"]
Str(s) == [kind |-> "string", s |-> s]
Obj(members) == [kind |-> "object", members |-> members]
Bool(b) == [kind |-> "boolean", b |-> b]
JsNull == [kind |-> "null"]
Undefined == [kind |-> "undefined"]

IsNumber(v) == v.kind = "number"

\* typeof v === 'number': NaN is of type number too
TypeofNumber(v) == v.kind \in {"number", "NaN"}

\* a >= b on IEEE doubles: false as soon as one side is NaN
GreaterEq(a, b) == IsNumber(a) /\ IsNumber(b) /\ a.n >= b.n

\* a - b on IEEE doubles: NaN as soon as one side is NaN
Minus(a, b) == IF IsNumber(a) /\ IsNumber(b) THEN Num(a.n - b.n) ELSE NaN

Range(f) == {f[x] : x \in DOMAIN f}

Digits == <<"0", "1", "2", "3", "4", "5", "6", "7", "8", "9">>

IsDigit(c) == \E d \in 1..10 : Digits[d] = c

DigitValue(c) == (CHOOSE d \in 1..10 : Digits[d] = c) - 1

RECURSIVE DigitPrefix(_, _, _)
\* value of the longest run of decimal digits of chars from position j on, acc so far
DigitPrefix(chars, j, acc) ==
  IF j > Len(chars) \/ ~IsDigit(chars[j]) THEN acc
  ELSE DigitPrefix(chars, j + 1, acc * 10 + DigitValue(chars[j]))

RECURSIVE DigitRun(_, _)
\* the longest run of decimal digits of chars from position j on
DigitRun(chars, j) ==
  IF j > Len(chars) \/ ~IsDigit(chars[j]) THEN <<>>
  ELSE <<DigitValue(chars[j])>> \o DigitRun(chars, j + 1)

RECURSIVE StripZeros(_)
StripZeros(digits) ==
  IF Len(digits) > 0 /\ digits[Len(digits)] = 0
  THEN StripZeros(SubSeq(digits, 1, Len(digits) - 1))
  ELSE digits

RECURSIVE TrimStart(_)
TrimStart(chars) ==
  IF Len(chars) > 0 /\ chars[1] = " " THEN TrimStart(Tail(chars)) ELSE chars

\* parseFloat on a string given as its characters: leading white space is
\* skipped, then the longest prefix that is a decimal literal (digits, a
\* point, digits) is the value; NaN when that prefix holds no digit.  Signs,
\* exponents and "Infinity" are outside the alphabet of the strings modelled.
parseFloat(chars) ==
  LET str == TrimStart(chars)
      whole == DigitRun(str, 1)
      point == Len(whole) + 1
      fraction == IF point <= Len(str) /\ str[point] = "." THEN DigitRun(str, point + 1) ELSE <<>>
  IN IF Len(whole) = 0 /\ Len(fraction) = 0 THEN NaN
     ELSE Dec(DigitPrefix(str, 1, 0), StripZeros(fraction))

\* values.filter(v => typeof v === 'number')
NumericValues(members) == SelectSeq(members, TypeofNumber)

\* the first numeric member only if it is the first member
formatValueFirstMember(value) ==
  CASE TypeofNumber(value) -> value
    [] value.kind = "string" ->
         LET parsed == parseFloat(value.s) IN IF parsed.kind = "NaN" THEN Num(0) ELSE parsed
    [] value.kind = "object" ->
         IF Len(value.members) > 0 /\ TypeofNumber(value.members[1])
         THEN value.members[1] ELSE Num(0)
    [] OTHER -> Num(0)

formatValue(value) ==
  CASE TypeofNumber(value) -> value
    [] value.kind = "string" ->
         LET parsed == parseFloat(value.s) IN IF parsed.kind = "NaN" THEN Num(0) ELSE parsed
    [] value.kind = "object" ->
         LET numericValues == NumericValues(value.members)
         IN IF Len(numericValues) > 0 THEN numericValues[1] ELSE Num(0)
    [] OTHER -> Num(0)

\* -------------------------------------------------------------- timestamps
T1 == "1970-01-01T00:00:01.000Z"
T2 == "1970-01-01T00:00:02.000Z"
T32 == "1970-01-01T00:00:32.000Z"
TBad == "not-a-date"

\* new Date(timestamp).getTime(): epoch milliseconds, NaN for an invalid date
getTime(timestamp) ==
  CASE timestamp = T1 -> Num(1000)
    [] timestamp = T2 -> Num(2000)
    [] timestamp = T32 -> Num(32000)
    [] OTHER -> NaN

\* new Date(t).toLocaleTimeString(), in UTC: hours, minutes, seconds of the day
toLocaleTimeString(t) ==
  IF IsNumber(t)
  THEN LET s == (t.n \div 1000) % 86400
       IN Str(<<s \div 3600, (s % 3600) \div 60, s % 60>>)
  ELSE Str(<<"Invalid Date">>)

\* --------------------------------------------------------- time-axis reducer
RECURSIVE UniqueFrom(_, _, _)
UniqueFrom(seq, j, acc) ==
  IF j > Len(seq) THEN acc
  ELSE UniqueFrom(seq, j + 1,
                  IF \E k \in 1..Len(acc) : acc[k] = seq[j] THEN acc ELSE Append(acc, seq[j]))

\* Array.from(new Set(sensorData.map(p => new Date(p.timestamp).getTime()))):
\* the instants in order of first occurrence (a Set holds NaN once)
UniqueInstants(data) == UniqueFrom([j \in 1..Len(data) |-> getTime(data[j].timestamp)], 1, <<>>)

RECURSIVE AscendingFrom(_, _, _)
\* insertion of arr[j..] into the ascending sequence acc
AscendingFrom(arr, j, acc) ==
  IF j > Len(arr) THEN acc
  ELSE AscendingFrom(arr, j + 1,
         SelectSeq(acc, LAMBDA y : y.n < arr[j].n) \o <<arr[j]>>
           \o SelectSeq(acc, LAMBDA y : y.n > arr[j].n))

\* what Array.prototype.sort makes of the comparator (a, b) => a - b on two
\* instants: the sign of the difference, and +0 when the difference is NaN
Compare(a, b) ==
  IF IsNumber(a) /\ IsNumber(b)
  THEN (IF a.n < b.n THEN -1 ELSE IF a.n > b.n THEN 1 ELSE 0)
  ELSE 0

\* The engines.  With a comparator that is not consistent (NaN among the
\* keys) ECMAScript leaves the order to the implementation, so the result is
\* what the engine's algorithm does on the array as it stands:
\*   "timsort"   - V8: on arrays shorter than 64 elements, detection of the
\*                 leading run followed by binary insertion of the rest;
\*   "insertion" - a stable linear insertion sort, which is what the merge
\*                 sorts of the other engines do on arrays this short.
Engines == {"timsort", "insertion"}

RECURSIVE ScanLeft(_, _, _, _)
\* linear insertion: the position behind which x goes in the order acc
ScanLeft(keys, acc, x, p) ==
  IF p >= 1 /\ Compare(keys[acc[p]], keys[x]) > 0
  THEN ScanLeft(keys, acc, x, p - 1)
  ELSE p

RECURSIVE InsertionOrder(_, _, _)
\* indices of keys in the order a stable insertion sort leaves them, acc being
\* the order of keys[1..j-1]
InsertionOrder(keys, j, acc) ==
  IF j > Len(keys) THEN acc
  ELSE LET p == ScanLeft(keys, acc, j, Len(acc))
       IN InsertionOrder(keys, j + 1,
            SubSeq(acc, 1, p) \o <<j>> \o SubSeq(acc, p + 1, Len(acc)))

RECURSIVE RunEnd(_, _, _)
\* TimSort's CountAndMakeRun: last index of the run that starts at keys[1]
RunEnd(keys, descending, j) ==
  IF j > Len(keys) THEN j - 1
  ELSE LET less == Compare(keys[j], keys[j - 1]) < 0
       IN IF (descending /\ less) \/ (~descending /\ ~less)
          THEN RunEnd(keys, descending, j + 1)
          ELSE j - 1

RECURSIVE BinarySearch(_, _, _, _, _)
\* TimSort's binary insertion: where pivot x goes in the order acc
BinarySearch(keys, acc, x, lo, hi) ==
  IF lo >= hi THEN lo
  ELSE LET mid == lo + ((hi - lo) \div 2)
       IN IF Compare(keys[x], keys[acc[mid]]) < 0
          THEN BinarySearch(keys, acc, x, lo, mid)
          ELSE BinarySearch(keys, acc, x, mid + 1, hi)

RECURSIVE BinaryInsertion(_, _, _)
BinaryInsertion(keys, j, acc) ==
  IF j > Len(keys) THEN acc
  ELSE LET p == BinarySearch(keys, acc, j, 1, Len(acc) + 1)
       IN BinaryInsertion(keys, j + 1,
            SubSeq(acc, 1, p - 1) \o <<j>> \o SubSeq(acc, p, Len(acc)))

\* indices of keys in the order V8's TimSort leaves them (short arrays)
TimSortOrder(keys) ==
  IF Len(keys) < 2 THEN [j \in 1..Len(keys) |-> j]
  ELSE LET descending == Compare(keys[2], keys[1]) < 0
           last == RunEnd(keys, descending, 3)
           run == [j \in 1..last |-> IF descending THEN last + 1 - j ELSE j]
       IN BinaryInsertion(keys, last + 1, run)

\* indices of keys in the order eng's sort leaves them
SortOrder(eng, keys) ==
  IF eng = "timsort" THEN TimSortOrder(keys) ELSE InsertionOrder(keys, 1, <<>>)

\* the instants left in the order of their first occurrence
SortInstantsNone(eng, arr) == arr

\* arr.sort((a, b) => a - b) on distinct instants (lines 661-663) on engine
\* eng.  With numbers only the comparator is consistent and the result is the
\* ascending order on every engine.  With NaN among them a - b is NaN for
\* some pairs and the result is the engine's (V8 leaves [32000, NaN, 1000]
\* and [1000, NaN] as they are).
SortInstants(eng, arr) ==
  IF \A j \in 1..Len(arr) : IsNumber(arr[j])
  THEN AscendingFrom(arr, 1, <<>>)
  ELSE LET p == SortOrder(eng, arr) IN [j \in 1..Len(arr) |-> arr[p[j]]]

\* the outcomes of the sort over the engines
SortedInstants(arr) == {SortInstants(eng, arr) : eng \in Engines}

windowSize == 30 * 1000

\* lines 667-671: latestTime, windowStart, windowTs
WindowTs(allTs) ==
  LET latestTime == allTs[Len(allTs)]
      windowStart == Minus(latestTime, Num(windowSize))
  IN SelectSeq(allTs, LAMBDA t : GreaterEq(t, windowStart))

\* ------------------------------------------------------------ pivot engine
\* names every object literal inherits from Object.prototype
ObjectPrototypeKeys ==
  {"constructor", "hasOwnProperty", "isPrototypeOf", "propertyIsEnumerable",
   "toLocaleString", "toString", "valueOf", "__proto__"}

\* the `in` operator: own keys and inherited ones
HasProperty(row, key) == key \in DOMAIN row \/ key \in ObjectPrototypeKeys

\* row[key] = value
SetProperty(row, key, value) ==
  [k \in DOMAIN row \cup {key} |-> IF k = key THEN value ELSE row[k]]

\* lines 674-681: one row per window instant, idx counted from 0
NewRow(t, idx) ==
  [k \in {"t", "i", "time"} |->
     CASE k = "t" -> t
       [] k = "i" -> Num(idx)
       [] OTHER -> toLocaleTimeString(t)]

\* rowByT.has(t) / rowByT.get(t): position of t in windowTs, 0 when absent
RowOf(windowTs, t) ==
  IF \E k \in 1..Len(windowTs) : windowTs[k] = t
  THEN CHOOSE k \in 1..Len(windowTs) : windowTs[k] = t
  ELSE 0

\* lines 686-691
TypesInWindow(data, windowTs) ==
  {data[j].sensor_type :
     j \in {x \in 1..Len(data) : RowOf(windowTs, getTime(data[x].timestamp)) # 0}}

\* lines 694-696: typesInWindow.forEach(st => { if (!(st in r)) r[st] = null })
InitNulls(row, types) ==
  [k \in DOMAIN row \cup {st \in types : ~HasProperty(row, st)} |->
     IF k \in DOMAIN row THEN row[k] ELSE JsNull]

RECURSIVE FillValuesFirstWins(_, _, _, _)
\* the fill keeping the first event of an instant and sensor type
FillValuesFirstWins(rows, data, windowTs, j) ==
  IF j > Len(data) THEN rows
  ELSE LET p == data[j]
           r == RowOf(windowTs, getTime(p.timestamp))
           earlier == \E x \in 1..(j - 1) :
                        /\ getTime(data[x].timestamp) = getTime(p.timestamp)
                        /\ data[x].sensor_type = p.sensor_type
       IN IF r = 0 \/ earlier
          THEN FillValuesFirstWins(rows, data, windowTs, j + 1)
          ELSE FillValuesFirstWins(
                 [rows EXCEPT ![r] = SetProperty(@, p.sensor_type, formatValue(p.value))],
                 data, windowTs, j + 1)

RECURSIVE FillValues(_, _, _, _)
\* lines 699-704: for (const p of sensorData) row[p.sensor_type] = formatValue(p.value)
FillValues(rows, data, windowTs, j) ==
  IF j > Len(data) THEN rows
  ELSE LET p == data[j]
           r == RowOf(windowTs, getTime(p.timestamp))
       IN IF r = 0
          THEN FillValues(rows, data, windowTs, j + 1)
          ELSE FillValues(
                 [rows EXCEPT ![r] = SetProperty(@, p.sensor_type, formatValue(p.value))],
                 data, windowTs, j + 1)

\* lines 674-704 for one outcome allTs of the sort
Pivot(data, allTs) ==
  LET windowTs == WindowTs(allTs)
      rows == [k \in 1..Len(windowTs) |-> NewRow(windowTs[k], k - 1)]
      typesInWindow == TypesInWindow(data, windowTs)
      nulled == [k \in 1..Len(windowTs) |-> InitNulls(rows[k], typesInWindow)]
  IN FillValues(nulled, data, windowTs, 1)

\* lines 713-721: sensorTypes, the columns of a table
SensorTypes(table) ==
  UNION {DOMAIN table[k] \ {"t", "i", "time"} : k \in 1..Len(table)}

\* --------------------------------------------------------- feature registry
\* UTF-16 code unit order of the sensor-type names of the model
NamesInOrder == <<"constructor", "pressure", "t", "temp">>

\* [...].sort() on distinct strings: the names in code unit order
SortStrings(names) == SelectSeq(NamesInOrder, LAMBDA x : x \in Range(names))

\* the updater forgetting the previous entries
ObserveReplacing(prev, sensor_type) == <<sensor_type>>

\* the updater without the sort
ObserveAppending(prev, sensor_type) ==
  IF \E k \in 1..Len(prev) : prev[k] = sensor_type
  THEN prev
  ELSE Append(prev, sensor_type)

\* lines 622-627: the updater given to setAvailableFeatures
Observe(prev, sensor_type) ==
  IF \E k \in 1..Len(prev) : prev[k] = sensor_type
  THEN prev
  ELSE SortStrings(Append(prev, sensor_type))

\* ---------------------------------------------------------- displayed series
\* lines 713-721: sensorTypes, the columns of the table in sorted order
SortedSensorTypes(table) == SelectSeq(NamesInOrder, LAMBDA x : x \in SensorTypes(table))

\* the filter that shows nothing while nothing is selected
DisplayedSeriesSelectedOnly(table, selected) ==
  SelectSeq(SortedSensorTypes(table), LAMBDA type : type \in selected)

\* lines 894-896: the sensor types a Line is drawn for
DisplayedSeries(table, selected) ==
  SelectSeq(SortedSensorTypes(table),
            LAMBDA type : Cardinality(selected) = 0 \/ type \in selected)

\* ------------------------------------------------------------------ inputs
Equipments == {"A", "B"}

\* absent member of a JSON payload (undefined)
Missing == "<undefined>"

BoundedSeq(S, n) == UNION {[1..m -> S] : m \in 0..n}

\* SensorDataPoint (lines 418-425); unit and status are never read by the
\* engine.  Two ordinary sensor types, one of them with two values (a number
\* and a numeric string), and two sensor types whose names meet a key of the
\* row object: "t" and "constructor".
ChartEvents ==
  [timestamp : {T1, T2, T32, TBad}, sensor_type : {"temp"},
   value : {Num(0), Str(<<"7">>)}, equipment_id : {"A"}]
  \cup
  [timestamp : {T1, T2, T32, TBad}, sensor_type : {"pressure"},
   value : {Num(3)}, equipment_id : {"A"}]
  \cup
  [timestamp : {T1, T32}, sensor_type : {"t", "constructor"},
   value : {Num(5)}, equipment_id : {"A"}]

\* sensors of a graph_update node, as onmessage reads them
Sensors ==
  {[timestamp |-> Missing, sensor_type |-> "temp", value |-> Num(5)],
   [timestamp |-> Missing, sensor_type |-> "pressure", value |-> Num(5)],
   [timestamp |-> TBad, sensor_type |-> "temp", value |-> Num(5)]}

\* a member of a JSON payload that may be absent: None, or Some(x)
None == <<>>
Some(x) == <<x>>

\* node.data of one entry of message.data.nodes
Node(eq, ts, sensors) == [equipment_id |-> eq, timestamp |-> ts, sensors |-> sensors]

\* what onmessage reads of a parsed message: its type, data.timestamp and
\* data.nodes
Message(type, ts, nodes) == [type |-> type, timestamp |-> ts, nodes |-> nodes]

\* messages with one node that carries n sensors
Messages(n) ==
  {Message("graph_update", ts[1], Some(<<Node(eq, ts[2], Some(sensors))>>)) :
     ts \in {<<Missing, Missing>>, <<T32, Missing>>, <<Missing, T32>>},
     eq \in Equipments, sensors \in [1..n -> Sensors]}
  \cup
  {Message("status", Missing, Some(<<Node(eq, Missing, Some(<<CHOOSE x \in Sensors : TRUE>>))>>)) :
     eq \in Equipments}

\* the messages of SpecSocket: one sensor without a timestamp of its own, for
\* either equipment
SocketMessages ==
  {Message("graph_update", Missing,
           Some(<<Node(eq, Missing, Some(<<[timestamp |-> Missing, sensor_type |-> "temp",
                                             value |-> Num(5)]>>))>>)) :
     eq \in Equipments}

\* the messages of SpecMessage: one node with up to MaxBatch sensors, with
\* and without timestamps of the message, the node and the sensors, and the
\* shapes the handler passes over: another type, no nodes, an empty list of
\* nodes, a node without sensors, the node of the viewed equipment behind the
\* node of another one or behind a node of its own without sensors
MessageSensors ==
  {[timestamp |-> Missing, sensor_type |-> "temp", value |-> Num(5)],
   [timestamp |-> Missing, sensor_type |-> "pressure", value |-> Num(5)],
   [timestamp |-> T2, sensor_type |-> "temp", value |-> Num(5)]}

ShapedMessages ==
  LET sensor == [timestamp |-> Missing, sensor_type |-> "temp", value |-> Num(5)]
  IN {Message("graph_update", ts, Some(<<Node(eq, nts, Some(sensors))>>)) :
        ts \in {Missing, T32}, nts \in {Missing, T2}, eq \in Equipments,
        sensors \in BoundedSeq(MessageSensors, MaxBatch)}
     \cup
     {Message("status", Missing, Some(<<Node("A", Missing, Some(<<sensor>>))>>)),
      Message("graph_update", Missing, None),
      Message("graph_update", Missing, Some(<<>>)),
      Message("graph_update", Missing, Some(<<Node("A", Missing, None)>>)),
      Message("graph_update", Missing,
              Some(<<Node("B", Missing, Some(<<sensor>>)), Node("A", Missing, Some(<<sensor>>))>>)),
      Message("graph_update", Missing,
              Some(<<Node("A", Missing, None), Node("A", Missing, Some(<<sensor>>))>>))}

\* event.data that is no JSON text
Malformed == [text |-> "{"]

\* a node of message.data.nodes that has no data member
NodeWithoutData == [id |-> "n0"]

\* the messages of SpecError: the ones whose handling throws (text that is no
\* JSON, a node without data that find comes to, a null among the sensors)
\* and, next to them, ones that differ from them in the place of the
\* offending member only
ErrorMessages ==
  LET temp == [timestamp |-> Missing, sensor_type |-> "temp", value |-> Num(5)]
      pressure == [timestamp |-> Missing, sensor_type |-> "pressure", value |-> Num(5)]
  IN {Malformed}
     \cup
     {Message("graph_update", Missing, Some(nodes)) :
        nodes \in {<<NodeWithoutData>>,
                   <<NodeWithoutData, Node("A", Missing, Some(<<temp>>))>>,
                   <<Node("B", Missing, Some(<<temp>>)), NodeWithoutData>>,
                   <<Node("A", Missing, Some(<<temp>>)), NodeWithoutData>>}}
     \cup
     {Message("graph_update", Missing, Some(<<Node("A", Missing, Some(sensors))>>)) :
        sensors \in {<<JsNull>>, <<JsNull, temp>>, <<temp, JsNull>>,
                     <<pressure, JsNull, temp>>, <<temp, pressure>>}}

\* the clock of SpecMessage at the time a message is handled
Clock == {T1, T2}

\* new Date().toISOString() at the time a message is handled
NowIso == {T1}

\* StoredMessage rows the database returns for equipment e
StoredMessages(e) ==
  {[timestamp |-> T1, sensor_type |-> "temp", value |-> Num(5), equipment_id |-> e],
   [timestamp |-> T32, sensor_type |-> "pressure", value |-> Num(5), equipment_id |-> e]}

\* ---------------------------------------------------------------- sockets
\* a WebSocket that has not reached CLOSED, with the equipmentId its handlers
\* have closed over (line 576: one socket per run of the effect)
Socket(eq, readyState) == [equipment_id |-> eq, readyState |-> readyState]

\* the cleanup that leaves the socket of the previous run as it is
CloseSocketNever(socks) == socks

\* websocket.close() (line 651) on the socket of the running effect: of the
\* sockets not yet CLOSED it is the newest, unless the peer has closed it
CloseSocket(socks) ==
  IF Len(socks) > 0 /\ socks[Len(socks)].readyState \in {"connecting", "open"}
  THEN [socks EXCEPT ![Len(socks)].readyState = "closing"]
  ELSE socks

\* the sequence without its entry s
Without(seq, s) == SubSeq(seq, 1, s - 1) \o SubSeq(seq, s + 1, Len(seq))

\* every socket is OPEN: no open or close event is due
Settled == \A s \in DOMAIN sockets : sockets[s].readyState = "open"

\* ---------------------------------------------------------------- actions
RECURSIVE ObserveAll(_, _, _)
\* the setAvailableFeatures updaters queued by one message, applied in order
ObserveAll(prev, sensors, j) ==
  IF j > Len(sensors) THEN prev
  ELSE ObserveAll(Observe(prev, sensors[j].sensor_type), sensors, j + 1)

\* lines 611-619: newDataPoint of one sensor
NewDataPoint(sensor, batchIso, eq) ==
  [timestamp |-> IF sensor.timestamp # Missing THEN sensor.timestamp ELSE batchIso,
   value |-> sensor.value,
   sensor_type |-> sensor.sensor_type,
   equipment_id |-> eq]

\* the batch timestamp that prefers the node's timestamp to the message's
BatchIsoNodeFirst(msg, node, now) ==
  IF node.timestamp # Missing THEN node.timestamp
  ELSE IF msg.timestamp # Missing THEN msg.timestamp
  ELSE now

\* lines 604-607: message.data?.timestamp ?? equipmentNode.data?.timestamp ?? now
BatchIso(msg, node, now) ==
  IF msg.timestamp # Missing THEN msg.timestamp
  ELSE IF node.timestamp # Missing THEN node.timestamp
  ELSE now

\* the node has a data member (node.data.equipment_id does not throw)
HasData(node) == "equipment_id" \in DOMAIN node

\* lines 598-600: index of the first node of nodes whose data.equipment_id is
\* eq, 0 when find returns undefined
FindNode(nodes, eq) ==
  IF \E i \in 1..Len(nodes) : HasData(nodes[i]) /\ nodes[i].equipment_id = eq
  THEN CHOOSE i \in 1..Len(nodes) :
         /\ HasData(nodes[i]) /\ nodes[i].equipment_id = eq
         /\ \A k \in 1..(i - 1) : ~(HasData(nodes[k]) /\ nodes[k].equipment_id = eq)
  ELSE 0

\* lines 598-600: the callback of find throws a TypeError: it comes to a node
\* without data before it has found a node of eq
FindThrows(nodes, eq) ==
  \E i \in 1..Len(nodes) :
    /\ ~HasData(nodes[i])
    /\ \A k \in 1..(i - 1) : HasData(nodes[k]) /\ nodes[k].equipment_id # eq

\* JSON.parse(event.data) (line 595) returns a message; it throws a
\* SyntaxError on text that is no JSON
Parses(data) == "type" \in DOMAIN data

\* line 610: the callback of forEach throws a TypeError on a sensor that is
\* null (sensor.timestamp, line 611)
SensorThrows(sensors) == \E j \in 1..Len(sensors) : sensors[j] = JsNull

RECURSIVE Reached(_, _)
\* line 610: the sensors forEach has handed to its callback, from position j
\* on, before the callback throws
Reached(sensors, j) ==
  IF j > Len(sensors) \/ sensors[j] = JsNull THEN <<>>
  ELSE <<sensors[j]>> \o Reached(sensors, j + 1)

\* the handler that takes the first node that has sensors, whatever its
\* equipment_id
NodeForAny(eq, msg) ==
  IF msg.type = "graph_update" /\ msg.nodes # None
  THEN LET with == SelectSeq(msg.nodes[1], LAMBDA node : node.sensors # None)
       IN IF Len(with) > 0 THEN Some(with[1]) ELSE None
  ELSE None

\* lines 594-602: the node whose sensors the handler closed over eq walks
\* through, None when one of its conditions stops it before or when
\* JSON.parse or find throws and the catch of line 636 ends the handler
NodeFor(eq, msg) ==
  IF Parses(msg) /\ msg.type = "graph_update" /\ msg.nodes # None
                 /\ ~FindThrows(msg.nodes[1], eq)
  THEN LET i == FindNode(msg.nodes[1], eq)
       IN IF i > 0 /\ msg.nodes[1][i].sensors # None THEN Some(msg.nodes[1][i]) ELSE None
  ELSE None

\* lines 609-620: the data points of the sensors of node that forEach
\* reaches, in its order
PointsFor(eq, msg, node, now) ==
  LET batchIso == BatchIso(msg, node, now)
      reached == Reached(node.sensors[1], 1)
  IN [j \in 1..Len(reached) |-> NewDataPoint(reached[j], batchIso, eq)]

\* websocket.onmessage (lines 593-639) of socket s.  The state updates the
\* handler has queued (lines 622-630) before an exception ends it at the
\* catch of line 636 take effect; setLastUpdate (line 633) is reached only
\* when forEach returns.
LiveMessage(s, msg, now) ==
  /\ mounted
  /\ ~effectPending
  /\ s \in DOMAIN sockets
  /\ sockets[s].readyState = "open"
  /\ LET eq == sockets[s].equipment_id
         found == NodeFor(eq, msg)
     IN IF found # None
        THEN LET points == PointsFor(eq, msg, found[1], now)
             IN /\ Len(sensorData) + Len(points) <= MaxBuf
                /\ availableFeatures' = ObserveAll(availableFeatures, points, 1)
                /\ sensorData' = sensorData \o points
                /\ buffered' = buffered \cup {points[j].sensor_type : j \in 1..Len(points)}
                /\ effectPending' = (Len(points) > 0)
                /\ lastUpdate' = IF SensorThrows(found[1].sensors[1]) THEN lastUpdate
                                 ELSE toLocaleTimeString(getTime(now))
        ELSE UNCHANGED <<availableFeatures, sensorData, buffered, effectPending, lastUpdate>>
  /\ UNCHANGED <<equipmentId, chartData, timeAxis, pendingLoads, staleLen, engine,
                 selectedFeatures, sockets, isConnected, mounted, probe, formatted>>

\* sorted with x put behind every element whose instant is not later
InsertByTime(sorted, x) ==
  LET before == SelectSeq(sorted, LAMBDA y : getTime(y.timestamp).n <= getTime(x.timestamp).n)
      after == SelectSeq(sorted, LAMBDA y : getTime(y.timestamp).n > getTime(x.timestamp).n)
  IN before \o <<x>> \o after

RECURSIVE StableSortByTime(_, _, _)
StableSortByTime(msgs, j, acc) ==
  IF j > Len(msgs) THEN acc
  ELSE StableSortByTime(msgs, j + 1, InsertByTime(acc, msgs[j]))

\* historicalMessages.sort((a, b) => getTime(a) - getTime(b)) (line 484) on
\* engine eng: the stable ascending order when every timestamp is valid,
\* otherwise what the engine's algorithm leaves
SortMessages(eng, msgs) ==
  IF \A j \in 1..Len(msgs) : IsNumber(getTime(msgs[j].timestamp))
  THEN StableSortByTime(msgs, 1, <<>>)
  ELSE LET p == SortOrder(eng, [j \in 1..Len(msgs) |-> getTime(msgs[j].timestamp)])
       IN [j \in 1..Len(msgs) |-> msgs[p[j]]]

\* the outcomes of the sort over the engines
SortedMessages(msgs) == {SortMessages(eng, msgs) : eng \in Engines}

\* the completion that hands whatever came back to setSensorData, without
\* the early return on an empty result
LoadCompleteReplacing(e, msgs) ==
  /\ ~effectPending
  /\ pendingLoads[e] > 0
  /\ pendingLoads' = [pendingLoads EXCEPT ![e] = @ - 1]
  /\ IF ~mounted
     THEN UNCHANGED <<sensorData, effectPending, staleLen, buffered>>
     ELSE /\ sensorData' = SortMessages(engine, msgs)
          /\ effectPending' = TRUE
          /\ staleLen' = 0
          /\ buffered' = buffered \cup {msgs[j].sensor_type : j \in 1..Len(msgs)}
  /\ UNCHANGED <<equipmentId, chartData, timeAxis, availableFeatures, engine, lastUpdate,
                 selectedFeatures, sockets, isConnected, mounted, probe, formatted, delivered>>

\* completion of loadHistoricalData (lines 464-495) started for equipment e;
\* on a page that has been unmounted the state setters do nothing
LoadComplete(e, msgs) ==
  /\ ~effectPending
  /\ pendingLoads[e] > 0
  /\ pendingLoads' = [pendingLoads EXCEPT ![e] = @ - 1]
  /\ IF Len(msgs) = 0 \/ ~mounted
     THEN UNCHANGED <<sensorData, effectPending, staleLen, buffered>>
     ELSE /\ sensorData' = SortMessages(engine, msgs)
          /\ effectPending' = TRUE
          /\ staleLen' = 0
          /\ buffered' = buffered \cup {msgs[j].sensor_type : j \in 1..Len(msgs)}
  /\ UNCHANGED <<equipmentId, chartData, timeAxis, availableFeatures, engine, lastUpdate,
                 selectedFeatures, sockets, isConnected, mounted, probe, formatted, delivered>>

\* the route parameter changes and the [equipmentId] effects run again: the
\* one of lines 563-565 starts loadHistoricalData for the new equipment, the
\* one of lines 568-654 closes its socket (cleanup, lines 649-653) and opens
\* a new one (line 576)
SwitchEquipment(e) ==
  /\ mounted
  /\ ~effectPending
  /\ e # equipmentId
  /\ pendingLoads["A"] + pendingLoads["B"] < MaxLoads
  /\ Len(sockets) < MaxSockets
  /\ equipmentId' = e
  /\ pendingLoads' = [pendingLoads EXCEPT ![e] = @ + 1]
  /\ sockets' = Append(CloseSocket(sockets), Socket(e, "connecting"))
  /\ staleLen' = Len(sensorData)
  /\ buffered' = {}
  /\ UNCHANGED <<sensorData, chartData, timeAxis, availableFeatures, effectPending, engine,
                 lastUpdate, selectedFeatures, isConnected, mounted, probe, formatted, delivered>>

\* the page is left: the cleanup of the socket effect runs (lines 649-653)
Unmount ==
  /\ mounted
  /\ ~effectPending
  /\ mounted' = FALSE
  /\ sockets' = CloseSocket(sockets)
  /\ UNCHANGED <<equipmentId, sensorData, chartData, timeAxis, availableFeatures, pendingLoads,
                 effectPending, engine, staleLen, buffered, lastUpdate, selectedFeatures,
                 isConnected, probe, formatted, delivered>>

\* the connection of socket s is established: websocket.onopen (lines 578-581)
SocketOpened(s) ==
  /\ ~effectPending
  /\ s \in DOMAIN sockets
  /\ sockets[s].readyState = "connecting"
  /\ sockets' = [sockets EXCEPT ![s].readyState = "open"]
  /\ isConnected' = TRUE
  /\ UNCHANGED <<equipmentId, sensorData, chartData, timeAxis, availableFeatures, pendingLoads,
                 effectPending, engine, staleLen, buffered, lastUpdate, selectedFeatures,
                 mounted, probe, formatted, delivered>>

\* the connection of socket s is gone, after close() or by the peer or the
\* network: websocket.onerror when it failed, then websocket.onclose (lines
\* 583-591), both setIsConnected(false)
SocketClosed(s) ==
  /\ ~effectPending
  /\ s \in DOMAIN sockets
  /\ sockets' = Without(sockets, s)
  /\ isConnected' = IF mounted THEN FALSE ELSE isConnected
  /\ UNCHANGED <<equipmentId, sensorData, chartData, timeAxis, availableFeatures, pendingLoads,
                 effectPending, engine, staleLen, buffered, lastUpdate, selectedFeatures,
                 mounted, probe, formatted, delivered>>

\* the updater that never takes a feature out
ToggleAddOnly(prev, feature) == prev \cup {feature}

\* lines 842-850: the updater given to setSelectedFeatures
Toggle(prev, feature) ==
  IF feature \in prev THEN prev \ {feature} ELSE prev \cup {feature}

\* click on the button of a feature (lines 839-853)
ToggleFeature(feature) ==
  /\ mounted
  /\ ~effectPending
  /\ feature \in Range(availableFeatures)
  /\ selectedFeatures' = Toggle(selectedFeatures, feature)
  /\ UNCHANGED <<equipmentId, sensorData, chartData, timeAxis, availableFeatures, pendingLoads,
                 effectPending, engine, staleLen, buffered, lastUpdate, sockets, isConnected,
                 mounted, probe, formatted, delivered>>

\* the effect that publishes a table only while none is published
RecomputeOnce ==
  /\ effectPending
  /\ effectPending' = FALSE
  /\ IF Len(sensorData) = 0 \/ Len(chartData) > 0
     THEN UNCHANGED <<chartData, timeAxis>>
     ELSE LET allTs == SortInstants(engine, UniqueInstants(sensorData))
          IN /\ timeAxis' = WindowTs(allTs)
             /\ chartData' = Pivot(sensorData, allTs)
  /\ UNCHANGED <<equipmentId, sensorData, availableFeatures, pendingLoads, staleLen, buffered,
                 engine, lastUpdate, selectedFeatures, sockets, isConnected, mounted,
                 probe, formatted, delivered>>

\* the effect that also drops from the buffer the events that have no row
RecomputePruning ==
  /\ effectPending
  /\ effectPending' = FALSE
  /\ IF Len(sensorData) = 0
     THEN UNCHANGED <<chartData, timeAxis, sensorData>>
     ELSE LET allTs == SortInstants(engine, UniqueInstants(sensorData))
          IN /\ timeAxis' = WindowTs(allTs)
             /\ chartData' = Pivot(sensorData, allTs)
             /\ sensorData' = SelectSeq(sensorData,
                                LAMBDA p : RowOf(WindowTs(allTs), getTime(p.timestamp)) > 0)
  /\ UNCHANGED <<equipmentId, availableFeatures, pendingLoads, staleLen, buffered,
                 engine, lastUpdate, selectedFeatures, sockets, isConnected, mounted,
                 probe, formatted, delivered>>

\* the [sensorData] effect (lines 657-707)
Recompute ==
  /\ effectPending
  /\ effectPending' = FALSE
  /\ IF Len(sensorData) = 0
     THEN UNCHANGED <<chartData, timeAxis>>
     ELSE LET allTs == SortInstants(engine, UniqueInstants(sensorData))
          IN /\ timeAxis' = WindowTs(allTs)
             /\ chartData' = Pivot(sensorData, allTs)
  /\ UNCHANGED <<equipmentId, sensorData, availableFeatures, pendingLoads, staleLen, buffered,
                 engine, lastUpdate, selectedFeatures, sockets, isConnected, mounted,
                 probe, formatted, delivered>>

\* one call of formatValue (lines 545-560)
Format ==
  /\ formatted = <<>>
  /\ formatted' = <<formatValue(probe)>>
  /\ UNCHANGED <<equipmentId, sensorData, chartData, timeAxis, availableFeatures, pendingLoads,
                 effectPending, engine, staleLen, buffered, lastUpdate, selectedFeatures,
                 sockets, isConnected, mounted, probe, delivered>>

\* ---------------------------------------------------------- specifications
\* the mounted page: both [equipmentId] effects have run, the [sensorData]
\* effect has run on the empty buffer
Init ==
  /\ equipmentId = "A"
  /\ sensorData = <<>>
  /\ chartData = <<>>
  /\ timeAxis = <<>>
  /\ availableFeatures = <<>>
  /\ pendingLoads = [e \in Equipments |-> IF e = "A" THEN 1 ELSE 0]
  /\ effectPending = FALSE
  /\ engine \in Engines
  /\ staleLen = 0
  /\ buffered = {}
  /\ lastUpdate = Str(<<>>)
  /\ selectedFeatures = {}
  /\ sockets = <<Socket("A", "connecting")>>
  /\ isConnected = FALSE
  /\ mounted = TRUE
  /\ probe = Undefined
  /\ formatted = <<>>
  /\ delivered = <<>>

\* The page from mount on.  The open and close events of the sockets are
\* taken as soon as they are due (a close before an open): what the page
\* does with its data does not depend on when they come, and SpecSocket
\* lets them come at any time.
Next ==
  \/ /\ Settled
     /\ \E n \in 1..MaxBatch :
          /\ Len(sensorData) + n <= MaxBuf
          /\ \E msg \in Messages(n), now \in NowIso : LiveMessage(1, msg, now)
     /\ UNCHANGED delivered
  \/ /\ Settled
     /\ \E e \in {x \in Equipments : pendingLoads[x] > 0} :
          \E msgs \in BoundedSeq(StoredMessages(e), MaxSeed) : LoadComplete(e, msgs)
  \/ /\ Settled
     /\ \E e \in Equipments : SwitchEquipment(e)
  \/ \E s \in DOMAIN sockets : sockets[s].readyState = "closing" /\ SocketClosed(s)
  \/ /\ \A s \in DOMAIN sockets : sockets[s].readyState # "closing"
     /\ \E s \in DOMAIN sockets : SocketOpened(s)
  \/ Recompute

Spec == Init /\ [][Next]_vars

\* the recomputation alone, on every buffer of up to MaxLen live events
InitChart ==
  /\ equipmentId = "A"
  /\ sensorData \in BoundedSeq(ChartEvents, MaxLen)
  /\ chartData = <<>>
  /\ timeAxis = <<>>
  /\ availableFeatures = ObserveAll(<<>>, sensorData, 1)
  /\ pendingLoads = [e \in Equipments |-> 0]
  /\ effectPending = TRUE
  /\ engine \in Engines
  /\ staleLen = 0
  /\ buffered = {sensorData[j].sensor_type : j \in 1..Len(sensorData)}
  /\ lastUpdate = IF Len(sensorData) = 0 THEN Str(<<>>) ELSE toLocaleTimeString(getTime(T1))
  /\ selectedFeatures = {}
  /\ sockets = <<Socket("A", "open")>>
  /\ isConnected = TRUE
  /\ mounted = TRUE
  /\ probe = Undefined
  /\ formatted = <<>>
  /\ delivered = <<>>

NextChart == Recompute

SpecChart == InitChart /\ [][NextChart]_vars

\* The page with its feature buttons: live messages of one sensor, the
\* historical load of the mounted equipment, clicks on the buttons of the
\* registered features.
NextSelect ==
  \/ /\ Settled
     /\ Len(sensorData) < MaxBuf
     /\ \E msg \in Messages(1), now \in NowIso : LiveMessage(1, msg, now)
     /\ UNCHANGED delivered
  \/ /\ Settled
     /\ \E e \in {x \in Equipments : pendingLoads[x] > 0} :
          \E msgs \in BoundedSeq(StoredMessages(e), 1) : LoadComplete(e, msgs)
  \/ \E s \in DOMAIN sockets : SocketOpened(s)
  \/ \E feature \in Range(availableFeatures) : ToggleFeature(feature)
  \/ Recompute

SpecSelect == Init /\ [][NextSelect]_vars

\* The page and its sockets: open and close events come at any time, the
\* peer or the network may close a socket that close() was never called on,
\* the route changes, the page is left.  The database holds no message.
NextSocket ==
  \/ /\ Len(sensorData) < MaxBuf
     /\ \E s \in DOMAIN sockets, msg \in SocketMessages, now \in NowIso :
          LiveMessage(s, msg, now)
     /\ UNCHANGED delivered
  \/ \E e \in {x \in Equipments : pendingLoads[x] > 0} : LoadComplete(e, <<>>)
  \/ \E e \in Equipments : SwitchEquipment(e)
  \/ Unmount
  \/ \E s \in DOMAIN sockets : SocketOpened(s)
  \/ \E s \in DOMAIN sockets : SocketClosed(s)
  \/ Recompute

SpecSocket == Init /\ [][NextSocket]_vars

\* the events of earlier live messages the buffer of SpecMessage starts with
PriorEvents ==
  [timestamp : {T1, T32, TBad}, sensor_type : {"temp"}, value : {Num(5)}, equipment_id : {"A"}]

\* The message handler alone: the page views equipment A, its socket is
\* open, the buffer holds up to MaxBuf events of earlier messages and their
\* table is published; one message of ShapedMessages is handled and the
\* recomputation follows.  delivered records that message, the clock at that
\* time and the length of the buffer before.
InitMessage ==
  /\ equipmentId = "A"
  /\ sensorData \in BoundedSeq(PriorEvents, MaxBuf)
  /\ engine \in Engines
  /\ timeAxis = IF Len(sensorData) = 0 THEN <<>>
                ELSE WindowTs(SortInstants(engine, UniqueInstants(sensorData)))
  /\ chartData = IF Len(sensorData) = 0 THEN <<>>
                 ELSE Pivot(sensorData, SortInstants(engine, UniqueInstants(sensorData)))
  /\ availableFeatures = ObserveAll(<<>>, sensorData, 1)
  /\ pendingLoads = [e \in Equipments |-> 0]
  /\ effectPending = FALSE
  /\ staleLen = 0
  /\ buffered = {sensorData[j].sensor_type : j \in 1..Len(sensorData)}
  /\ lastUpdate = IF Len(sensorData) = 0 THEN Str(<<>>) ELSE toLocaleTimeString(getTime(T1))
  /\ selectedFeatures = {}
  /\ sockets = <<Socket("A", "open")>>
  /\ isConnected = TRUE
  /\ mounted = TRUE
  /\ probe = Undefined
  /\ formatted = <<>>
  /\ delivered = <<>>

NextMessage ==
  \/ /\ Len(delivered) = 0
     /\ \E msg \in ShapedMessages, now \in Clock :
          /\ LiveMessage(1, msg, now)
          /\ delivered' = <<[msg |-> msg, now |-> now, at |-> Len(sensorData)]>>
  \/ Recompute

SpecMessage == InitMessage /\ [][NextMessage]_vars

\* The message handler alone, on the messages of ErrorMessages
NextError ==
  \/ /\ Len(delivered) = 0
     /\ \E msg \in ErrorMessages, now \in Clock :
          /\ LiveMessage(1, msg, now)
          /\ delivered' = <<[msg |-> msg, now |-> now, at |-> Len(sensorData)]>>
  \/ Recompute

SpecError == InitMessage /\ [][NextError]_vars

\* The values formatValue is handed: numbers, strings of up to MaxStr
\* characters (digits, the point, a letter, a blank), objects of up to
\* MaxMembers members in the order of Object.values, null, undefined, booleans.
ProbeChars == {"0", "1", "2", "5", ".", "a", " "}

ProbeMembers == {Num(80), Num(3), Str(<<"5">>), JsNull, Bool(TRUE), Obj(<<Num(1)>>)}

ProbeValues ==
  {Num(0), Num(5), Num(-3), Dec(12, <<5>>)}
  \cup {Str(chars) : chars \in BoundedSeq(ProbeChars, MaxStr)}
  \cup {Obj(members) : members \in BoundedSeq(ProbeMembers, MaxMembers)}
  \cup {JsNull, Undefined, Bool(TRUE), Bool(FALSE)}

\* formatValue alone, on every value of ProbeValues
InitCoerce ==
  /\ equipmentId = "A"
  /\ sensorData = <<>>
  /\ chartData = <<>>
  /\ timeAxis = <<>>
  /\ availableFeatures = <<>>
  /\ pendingLoads = [e \in Equipments |-> 0]
  /\ effectPending = FALSE
  /\ engine \in Engines
  /\ staleLen = 0
  /\ buffered = {}
  /\ lastUpdate = Str(<<>>)
  /\ selectedFeatures = {}
  /\ sockets = <<Socket("A", "open")>>
  /\ isConnected = TRUE
  /\ mounted = TRUE
  /\ probe \in ProbeValues
  /\ formatted = <<>>
  /\ delivered = <<>>

NextCoerce == Format

SpecCoerce == InitCoerce /\ [][NextCoerce]_vars

\* ------------------------------------------------------------- properties
\* the published table is the one computed from the current, non-empty buffer
Published == ~effectPending /\ Len(sensorData) > 0

Instant(j) == getTime(sensorData[j].timestamp)

ValidInstants == {Instant(j).n : j \in {x \in 1..Len(sensorData) : IsNumber(Instant(x))}}

\* the greatest instant of the buffer (the buffer holds a valid one)
Latest == CHOOSE m \in ValidInstants : \A n \in ValidInstants : n <= m

Columns(row) == DOMAIN row \ {"t", "i", "time"}

IsPrefix(a, b) == Len(a) <= Len(b) /\ SubSeq(b, 1, Len(a)) = a

\* C1: for every non-empty buffer the chart table has one row per instant of
\* the time axis, in axis order: as many rows as axis instants, row k carrying
\* t = the k-th axis instant and i = k (counted from 0), whatever sensor-type
\* names occur in the buffer.
RowAxisCorrespondence ==
  Published =>
    /\ Len(chartData) = Len(timeAxis)
    /\ \A k \in 1..Len(chartData) :
         /\ chartData[k]["t"] = timeAxis[k]
         /\ chartData[k]["i"] = Num(k - 1)

\* C2: all rows of one chart table have the same set of sensor columns (keys
\* other than t, i, time), and that set is typesInWindow, the sensor types of
\* the buffered events whose timestamp maps to an instant of the axis.
UniformColumns ==
  Published =>
    \A k \in 1..Len(chartData) :
      Columns(chartData[k]) = TypesInWindow(sensorData, timeAxis)

\* C3: for every row instant and every column s of the chart table, the cell
\* is present and null when the buffer holds no event of type s at that
\* instant, and a cell is non-null only if the buffer holds such an event.
NoZeroFill ==
  Published =>
    \A k \in 1..Len(chartData) : \A s \in SensorTypes(chartData) :
      LET observed == \E j \in 1..Len(sensorData) :
                        Instant(j) = timeAxis[k] /\ sensorData[j].sensor_type = s
      IN /\ ~observed => (s \in DOMAIN chartData[k] /\ chartData[k][s] = JsNull)
         /\ (s \in DOMAIN chartData[k] /\ chartData[k][s] # JsNull) => observed

\* C4: last-write-wins: the cell of an instant of the window and a sensor type
\* holds the coerced value of the event appended last to the buffer among the
\* events of that instant and type, whatever the earlier ones carried.
LastWriteWins ==
  Published =>
    \A k \in 1..Len(chartData) : \A j \in 1..Len(sensorData) :
      (/\ Instant(j) = timeAxis[k]
       /\ \A x \in (j + 1)..Len(sensorData) :
            ~(Instant(x) = Instant(j) /\ sensorData[x].sensor_type = sensorData[j].sensor_type))
      => /\ sensorData[j].sensor_type \in DOMAIN chartData[k]
         /\ chartData[k][sensorData[j].sensor_type] = formatValue(sensorData[j].value)

\* two events of one instant and one ordinary sensor type with different
\* coerced values are in the window of the published table
LastWriteWinsWitness ==
  /\ Published
  /\ \E k \in 1..Len(chartData) : \E j \in 1..Len(sensorData) : \E x \in 1..Len(sensorData) :
       /\ j < x
       /\ Instant(j) = timeAxis[k] /\ Instant(x) = timeAxis[k]
       /\ sensorData[j].sensor_type = "temp" /\ sensorData[x].sensor_type = "temp"
       /\ formatValue(sensorData[j].value) # formatValue(sensorData[x].value)
       /\ chartData[k]["temp"] = formatValue(sensorData[x].value)

\* C5: window exclusion, with latest the greatest instant of the buffer: an
\* event strictly before latest - 30 s has no row, a sensor type all of whose
\* events are strictly before latest - 30 s has no column, and an event at or
\* after latest - 30 s (so also one exactly at latest - 30 s) has a row.
WindowExclusion ==
  (Published /\ ValidInstants # {}) =>
    /\ \A j \in 1..Len(sensorData) :
         IsNumber(Instant(j)) =>
           (RowOf(timeAxis, Instant(j)) # 0 <=> Instant(j).n >= Latest - windowSize)
    /\ \A s \in {sensorData[j].sensor_type : j \in 1..Len(sensorData)} :
         (\A j \in 1..Len(sensorData) :
            sensorData[j].sensor_type = s =>
              (IsNumber(Instant(j)) /\ Instant(j).n < Latest - windowSize))
         => s \notin SensorTypes(chartData)

\* C6: the time axis is strictly ascending without duplicate, and every axis
\* instant lies in [latest - 30 s, latest], latest the greatest instant of the
\* buffer.
AxisAscendingInWindow ==
  Published =>
    /\ \A k \in 1..Len(timeAxis) : IsNumber(timeAxis[k])
    /\ \A k \in 1..(Len(timeAxis) - 1) : timeAxis[k].n < timeAxis[k + 1].n
    /\ \A k \in 1..Len(timeAxis) :
         timeAxis[k].n >= Latest - windowSize /\ timeAxis[k].n <= Latest

\* C7: while the same equipment is viewed the buffer grows only by append and
\* is never pruned: each step leaves the buffered events in place and in
\* order and only adds events behind them, the completion of the historical
\* load included (the seed is appended, it does not replace the buffer).
BufferAppendOnly ==
  [][equipmentId' = equipmentId => IsPrefix(sensorData, sensorData')]_vars

\* C8: the buffer is cleared when the viewed equipment changes: once the
\* historical load of the newly viewed equipment is over, the buffer holds no
\* event put there while an earlier equipment was viewed, also when the new
\* equipment has no historical messages.
BufferClearedOnSwitch ==
  (~effectPending /\ \A e \in Equipments : pendingLoads[e] = 0) => staleLen = 0

\* C9: the feature registry is the set of the sensor types put into the
\* buffer during the view, by the historical seed or by live messages alike.
RegistryIsObservedTypes == Range(availableFeatures) = buffered

\* C10: monotonic feature growth: no step removes a sensor type from the
\* feature registry, whether its events left the window, stopped arriving or
\* left the buffer.
MonotonicFeatures ==
  [][Range(availableFeatures) \subseteq Range(availableFeatures')]_vars

\* the events of a registered sensor type have left the 30-second window: the
\* type is in the registry and has no column in the published table
MonotonicFeaturesWitness ==
  /\ Published
  /\ Len(chartData) > 0
  /\ \E s \in Range(availableFeatures) :
       /\ s \notin SensorTypes(chartData)
       /\ \E j \in 1..Len(sensorData) :
            /\ sensorData[j].sensor_type = s
            /\ IsNumber(Instant(j))
            /\ Instant(j).n < Latest - windowSize

\* the letters of the sensor-type names of the model
Spelling(name) ==
  CASE name = "constructor" -> <<"c", "o", "n", "s", "t", "r", "u", "c", "t", "o", "r">>
    [] name = "pressure" -> <<"p", "r", "e", "s", "s", "u", "r", "e">>
    [] name = "t" -> <<"t">>
    [] name = "temp" -> <<"t", "e", "m", "p">>

Alphabet == <<"a", "b", "c", "d", "e", "f", "g", "h", "i", "j", "k", "l", "m",
              "n", "o", "p", "q", "r", "s", "t", "u", "v", "w", "x", "y", "z">>

\* UTF-16 code unit of a lower-case letter
CodeUnit(c) == 96 + (CHOOSE k \in 1..26 : Alphabet[k] = c)

RECURSIVE CodeUnitsLess(_, _)
\* a < b on strings: the comparison of Array.prototype.sort without comparator
CodeUnitsLess(a, b) ==
  IF Len(b) = 0 THEN FALSE
  ELSE IF Len(a) = 0 THEN TRUE
  ELSE IF a[1] = b[1] THEN CodeUnitsLess(Tail(a), Tail(b))
  ELSE CodeUnit(a[1]) < CodeUnit(b[1])

\* C11: in every reachable state the feature registry is in ascending string
\* order and holds no sensor type twice: each entry is strictly less than the
\* one behind it, so that a type observed again changes nothing and a new
\* type stands at its sorted position.
RegistrySorted ==
  \A k \in 1..(Len(availableFeatures) - 1) :
    CodeUnitsLess(Spelling(availableFeatures[k]), Spelling(availableFeatures[k + 1]))

\* "temp" was observed first and "pressure", observed after it, stands before it
RegistrySortedWitness ==
  /\ Len(sensorData) >= 2
  /\ sensorData[1].sensor_type = "temp"
  /\ sensorData[2].sensor_type = "pressure"
  /\ availableFeatures = <<"pressure", "temp">>

\* C12: the displayed series are a function of the selection set and of the
\* columns of the current table: with an empty selection set every column is
\* displayed, otherwise exactly the columns that are in the selection set, so
\* that a column outside a non-empty selection set is not displayed.
DisplayBySelection ==
  LET shown == Range(DisplayedSeries(chartData, selectedFeatures))
      columns == UNION {Columns(chartData[k]) : k \in 1..Len(chartData)}
  IN IF selectedFeatures = {}
     THEN shown = columns
     ELSE shown = columns \cap selectedFeatures

\* "temp" is selected and "pressure", whose event came in after the event of
\* "temp", has a column without being displayed
DisplayBySelectionWitness ==
  /\ ~effectPending
  /\ selectedFeatures = {"temp"}
  /\ Len(sensorData) = 2
  /\ sensorData[1].sensor_type = "temp"
  /\ sensorData[2].sensor_type = "pressure"
  /\ {"temp", "pressure"} \subseteq UNION {Columns(chartData[k]) : k \in 1..Len(chartData)}
  /\ DisplayedSeries(chartData, selectedFeatures) = <<"temp">>

\* the sorted distinct instants of data on the engine of the run
AllTs(data) == SortInstants(engine, UniqueInstants(data))

\* C13: every change of the buffer is followed by a full recomputation: once
\* no recomputation is pending the published chart table is the pivot of the
\* current buffer over the time axis of the current buffer (window of 30 s),
\* never one derived from an older buffer.
PublishedIsPivot ==
  Published =>
    /\ timeAxis = WindowTs(AllTs(sensorData))
    /\ chartData = Pivot(sensorData, AllTs(sensorData))

\* the buffer grew past the window of its first event and the published table
\* is the one of the grown buffer: one row, at the later instant
PublishedIsPivotWitness ==
  /\ Published
  /\ Len(sensorData) = 2
  /\ sensorData[1].timestamp = T1
  /\ sensorData[2].timestamp = T32
  /\ Len(chartData) = 1
  /\ chartData[1].t = getTime(T32)

\* the events of the buffer whose timestamp is a valid date
ValidEvents == SelectSeq(sensorData, LAMBDA p : IsNumber(getTime(p.timestamp)))

\* C14: an event with a missing or invalid timestamp is dropped from the
\* windowing only: it stays in the buffer, it gets no row and no column, and
\* the rows, columns and cells of the other events are what they would be
\* without it, so that the published table is the table of the events with
\* a valid timestamp.
InvalidTimestampDropped ==
  ~effectPending =>
    chartData = IF Len(ValidEvents) = 0 THEN <<>>
                ELSE Pivot(ValidEvents, AllTs(ValidEvents))

\* C15: an empty buffer goes with an empty chart table: whenever the buffer
\* is empty the published chart table has no row.
EmptyBufferEmptyChart ==
  Len(sensorData) = 0 => Len(timeAxis) = 0 /\ Len(chartData) = 0

\* the historical load has come back without a message and no live event has
\* arrived: buffer and table are empty and nothing is pending
EmptyBufferEmptyChartWitness ==
  /\ Len(sensorData) = 0
  /\ Len(chartData) = 0
  /\ ~effectPending
  /\ pendingLoads[equipmentId] = 0
  /\ isConnected

\* a string parseFloat finds a number in: after its leading blanks stands a
\* digit, or a point followed by a digit
Parseable(chars) ==
  \E j \in 1..Len(chars) :
    /\ \A k \in 1..(j - 1) : chars[k] = " "
    /\ \/ IsDigit(chars[j])
       \/ chars[j] = "." /\ j < Len(chars) /\ IsDigit(chars[j + 1])

\* C16: formatValue is total and is the reference coercion on every kind of
\* value: a number is returned as it is, a string that parses as its parsed
\* value, a string that does not parse as 0, an object as the first of its
\* members, in value order, that is a number, or 0 when none is, and null,
\* undefined and every other value as 0; it never throws.
CoercionReference ==
  Len(formatted) > 0 =>
    LET result == formatted[1]
    IN /\ TypeofNumber(result)
       /\ CASE probe.kind = "number" -> result = probe
            [] probe.kind = "string" ->
                 IF Parseable(probe.s) THEN result = parseFloat(probe.s) /\ IsNumber(result)
                 ELSE result = Num(0)
            [] probe.kind = "object" ->
                 IF \E j \in 1..Len(probe.members) : IsNumber(probe.members[j])
                 THEN \E j \in 1..Len(probe.members) :
                        /\ IsNumber(probe.members[j])
                        /\ \A k \in 1..(j - 1) : ~IsNumber(probe.members[k])
                        /\ result = probe.members[j]
                 ELSE result = Num(0)
            [] OTHER -> result = Num(0)

\* formatValue has returned the second member of an object whose first member
\* is no number
CoercionReferenceWitness ==
  /\ probe = Obj(<<Str(<<"5">>), Num(3)>>)
  /\ formatted = <<Num(3)>>

\* the sockets a message can still arrive on
OpenSockets == {s \in DOMAIN sockets : sockets[s].readyState = "open"}

\* C17: a view has at most one open subscription at any time: every socket
\* that is open or still connecting is the one of the mounted page for the
\* equipment now viewed (the socket of a view that was left or whose
\* equipmentId changed is closed), and a step that puts an event into the
\* buffer or a type into the registry is taken on the open socket of the
\* viewed equipment, never on a closed one.
OneSubscription ==
  /\ [](/\ Cardinality(OpenSockets) <= 1
        /\ \A s \in DOMAIN sockets :
             sockets[s].readyState \in {"connecting", "open"} =>
               mounted /\ sockets[s].equipment_id = equipmentId)
  /\ [][(sensorData' # sensorData \/ availableFeatures' # availableFeatures) =>
          \E s \in OpenSockets : sockets[s].equipment_id = equipmentId]_vars

\* the route has changed from A to B: the socket of A is closing, the one of
\* B is open and has delivered an event
OneSubscriptionWitness ==
  /\ equipmentId = "B"
  /\ sockets = <<Socket("A", "closing"), Socket("B", "open")>>
  /\ Len(sensorData) > 0
  /\ sensorData[Len(sensorData)].equipment_id = "B"

NodesOf(eq, msg) ==
  IF msg.nodes = None THEN <<>>
  ELSE SelectSeq(msg.nodes[1], LAMBDA node : node.equipment_id = eq)

\* the message is none for the view of eq: it is no graph_update, it has no
\* nodes, none of its nodes carries eq, or the node that does has no sensors
Ignorable(eq, msg) ==
  \/ msg.type # "graph_update"
  \/ msg.nodes = None
  \/ Len(NodesOf(eq, msg)) = 0
  \/ NodesOf(eq, msg)[1].sensors = None

\* C19: a live message appends only events of the viewed equipment: a message
\* that is no graph_update, has no nodes, has no node of the viewed
\* equipment or whose node of the viewed equipment has no sensors leaves
\* buffer, registry and lastUpdate unchanged, and every event a message
\* appends carries the viewed equipmentId.
OnlyViewedEquipment ==
  [][delivered' # delivered =>
       /\ Ignorable(equipmentId, delivered'[1].msg) =>
            UNCHANGED <<sensorData, availableFeatures, lastUpdate>>
       /\ IsPrefix(sensorData, sensorData')
       /\ \A j \in (Len(sensorData) + 1)..Len(sensorData') :
            sensorData'[j].equipment_id = equipmentId]_vars

\* with an event of an earlier message in the buffer, a message with a node
\* of equipment B only has been handled
OnlyViewedEquipmentWitness ==
  /\ Len(delivered) > 0
  /\ delivered[1].msg.type = "graph_update"
  /\ delivered[1].msg.nodes # None
  /\ Len(delivered[1].msg.nodes[1]) = 1
  /\ delivered[1].msg.nodes[1][1].equipment_id = "B"
  /\ delivered[1].msg.nodes[1][1].sensors # None
  /\ delivered[1].at = Len(sensorData)
  /\ Len(sensorData) > 0
  /\ lastUpdate # Str(<<>>)

\* a message has been handled and was one for the viewed equipment
Accepted == Len(delivered) > 0 /\ ~Ignorable(equipmentId, delivered[1].msg)

\* the sensors of that message, in their order
AcceptedSensors == NodesOf(equipmentId, delivered[1].msg)[1].sensors[1]

\* those of them without a timestamp of their own
Unstamped == {j \in 1..Len(AcceptedSensors) : AcceptedSensors[j].timestamp = Missing}

\* the timestamp of the message, else of the node, else the clock when the
\* message was handled
BatchTimestamp ==
  LET msg == delivered[1].msg
      node == NodesOf(equipmentId, msg)[1]
  IN IF msg.timestamp # Missing THEN msg.timestamp
     ELSE IF node.timestamp # Missing THEN node.timestamp
     ELSE delivered[1].now

\* the event of every sensor of the message carries the batch timestamp, or
\* the timestamp of the sensor when it has one
BatchStamped ==
  \A j \in 1..Len(AcceptedSensors) :
    sensorData[delivered[1].at + j].timestamp =
      IF j \in Unstamped THEN BatchTimestamp ELSE AcceptedSensors[j].timestamp

\* the rows of the published table at the instant of the batch timestamp
BatchRows == {k \in 1..Len(timeAxis) : timeAxis[k] = getTime(BatchTimestamp)}

NoStaleSeed ==
  \A j \in (staleLen + 1)..Len(sensorData) : sensorData[j].equipment_id = equipmentId

\* C22: row metadata is never overwritten by sensor data: whatever the names
\* of the sensor types in the buffer ("t", "i" and "time" among them), in a
\* published table the t of each row is its axis instant, its i is its
\* position, its time is the formatted instant, and every sensor type with an
\* event in the window is one of the displayable columns.
RowMetadataKept ==
  Published =>
    /\ Len(chartData) = Len(timeAxis)
    /\ \A k \in 1..Len(chartData) :
         /\ chartData[k]["t"] = timeAxis[k]
         /\ chartData[k]["i"] = Num(k - 1)
         /\ chartData[k]["time"] = toLocaleTimeString(timeAxis[k])
    /\ TypesInWindow(sensorData, timeAxis) \subseteq Range(SortedSensorTypes(chartData))

\* handling msg on the socket of eq throws: the text is no JSON, find comes to
\* a node without data before a node of eq, or the sensors of the node of eq
\* hold a null
Throws(eq, msg) ==
  \/ "type" \notin DOMAIN msg
  \/ /\ msg.type = "graph_update"
     /\ msg.nodes # None
     /\ LET nodes == msg.nodes[1]
            own == {i \in 1..Len(nodes) : "sensors" \in DOMAIN nodes[i] /\ nodes[i].equipment_id = eq}
            bare == {i \in 1..Len(nodes) : "sensors" \notin DOMAIN nodes[i]}
        IN \/ \E b \in bare : \A i \in own : b < i
           \/ \E i \in own :
                /\ \A k \in own \cup bare : i <= k
                /\ nodes[i].sensors # None
                /\ \E j \in 1..Len(nodes[i].sensors[1]) : nodes[i].sensors[1][j] = JsNull

\* C23: the handling of one inbound message is atomic with respect to
\* errors: when it throws (text that is no JSON, a node without data, a null
\* among the sensors), buffer, feature registry and lastUpdate are left as
\* they were before the message, and no prefix of its sensors is appended.
ErrorAtomic ==
  [][(delivered' # delivered /\ Throws(equipmentId, delivered'[1].msg)) =>
       UNCHANGED <<sensorData, availableFeatures, lastUpdate>>]_vars

\* C24: the connection flag tracks the current subscription: in every state
\* of the mounted page in which no open or close callback is due, isConnected
\* is true exactly if the socket opened for the viewed equipmentId is open,
\* in whatever order the close of the old socket and the open of the new one
\* came after a change of equipment.
ConnectedTracksSocket ==
  (mounted /\ \A s \in DOMAIN sockets : sockets[s].readyState = "open") =>
    (isConnected <=>
       \E s \in DOMAIN sockets :
         sockets[s].equipment_id = equipmentId /\ sockets[s].readyState = "open")

\* the orders in which n events can have arrived, for every n up to MaxLen
ArrivalOrders ==
  [n \in 0..MaxLen |-> {p \in [1..n -> 1..n] : \A i, j \in 1..n : p[i] = p[j] => i = j}]

\* every event of the buffer has a valid timestamp and no two events share
\* both instant and sensor type
DistinctCells ==
  /\ \A j \in 1..Len(sensorData) : IsNumber(Instant(j))
  /\ \A j, x \in 1..Len(sensorData) :
       (Instant(j) = Instant(x) /\ sensorData[j].sensor_type = sensorData[x].sensor_type)
         => j = x

\* C25: the chart table does not depend on the arrival order except through
\* last-write-wins: when the events of the buffer have valid timestamps and
\* no two of them share both instant and sensor type, every buffer holding
\* the same events in another order gives the published table: the same
\* rows, columns and cell values.
ArrivalOrderIrrelevant ==
  (Published /\ DistinctCells) =>
    \A p \in ArrivalOrders[Len(sensorData)] :
      LET other == [j \in 1..Len(sensorData) |-> sensorData[p[j]]]
          allTs == AllTs(other)
      IN /\ WindowTs(allTs) = timeAxis
         /\ Pivot(other, allTs) = chartData

\* three events of two sensor types have arrived latest first and the table
\* has its two rows in ascending order
ArrivalOrderIrrelevantWitness ==
  /\ Published
  /\ DistinctCells
  /\ Len(sensorData) = 3
  /\ sensorData[1].timestamp = T2 /\ sensorData[1].sensor_type = "pressure"
  /\ sensorData[2].timestamp = T2 /\ sensorData[2].sensor_type = "temp"
  /\ sensorData[3].timestamp = T1 /\ sensorData[3].sensor_type = "temp"
  /\ Len(chartData) = 2
  /\ chartData[1]["t"] = getTime(T1)
  /\ chartData[1]["pressure"] = JsNull
  /\ chartData[2]["pressure"] = Num(3)

\* the buffer before its last event was appended
Before == SubSeq(sensorData, 1, Len(sensorData) - 1)

\* the valid instants of the events of the buffer before the last one
InstantsBefore ==
  {Instant(j).n : j \in {x \in 1..(Len(sensorData) - 1) : IsNumber(Instant(x))}}

\* the last event of the buffer came late: the events before it hold a valid
\* timestamp, and its own is valid and more than 30 s before the latest of
\* theirs
StaleAppend ==
  /\ Len(sensorData) >= 2
  /\ InstantsBefore # {}
  /\ IsNumber(Instant(Len(sensorData)))
  /\ \A latest \in InstantsBefore :
       (\A n \in InstantsBefore : n <= latest)
         => Instant(Len(sensorData)).n < latest - windowSize

\* C26: appending an event whose timestamp is strictly before latest - 30 s
\* leaves the recomputed chart table as it was before the append: the table
\* published for the buffer with the late event is the table of the buffer
\* without it, in rows, columns and cells.
StaleAppendKeepsTable ==
  (Published /\ StaleAppend) =>
    /\ timeAxis = WindowTs(AllTs(Before))
    /\ chartData = Pivot(Before, AllTs(Before))

\* C27: the window only slides forward during a view: over live appends and
\* the completion of the historical load, the latest instant of the published
\* table, and with it the window start latest - 30 s, never decreases from
\* one table to the next.
WindowSlidesForward ==
  [][(Len(timeAxis) > 0 /\ Len(timeAxis') > 0) =>
       timeAxis'[Len(timeAxis')].n >= timeAxis[Len(timeAxis)].n]_vars

\* C28: whenever the buffer holds an event with a valid timestamp, the
\* published table is not empty and its last row is the row of the greatest
\* instant of the buffer, with a non-null cell for every sensor type that has
\* an event at that instant.
LatestRowPresent ==
  (Published /\ ValidInstants # {}) =>
    /\ Len(chartData) > 0
    /\ timeAxis[Len(timeAxis)] = Num(Latest)
    /\ chartData[Len(chartData)]["t"] = Num(Latest)
    /\ \A j \in 1..Len(sensorData) :
         Instant(j) = Num(Latest) =>
           /\ sensorData[j].sensor_type \in Columns(chartData[Len(chartData)])
           /\ chartData[Len(chartData)][sensorData[j].sensor_type] # JsNull

\* C29: toggling a feature is an involution that touches only the selection:
\* a step that changes the selection set adds or removes one registered
\* feature and leaves buffer, feature registry and chart table unchanged;
\* toggling the same feature again restores the selection set, the toggles
\* of two features commute, and when the last selected feature is deselected
\* every column is displayed again.
ToggleInvolution ==
  [][selectedFeatures' # selectedFeatures =>
       /\ UNCHANGED <<sensorData, availableFeatures, chartData>>
       /\ \E f \in Range(availableFeatures) :
            /\ selectedFeatures' = (selectedFeatures \ {f}) \cup ({f} \ selectedFeatures)
            /\ Toggle(selectedFeatures', f) = selectedFeatures
            /\ \A g \in Range(availableFeatures) :
                 Toggle(Toggle(selectedFeatures, f), g) = Toggle(Toggle(selectedFeatures, g), f)
       /\ selectedFeatures' = {} =>
            Range(DisplayedSeries(chartData', selectedFeatures')) = SensorTypes(chartData')]_vars

\* with columns for "pressure" and "temp" in the table, "pressure" alone is
\* selected and alone displayed
ToggleInvolutionWitness ==
  /\ ~effectPending
  /\ availableFeatures = <<"pressure", "temp">>
  /\ SensorTypes(chartData) = {"pressure", "temp"}
  /\ selectedFeatures = {"pressure"}
  /\ DisplayedSeries(chartData, selectedFeatures) = <<"pressure">>
====
